---- MODULE Spec2Model ----
(***************************************************************************)
(* A model of music21/metadata/bundles.py: MetadataEntry, MetadataBundle,  *)
(* the canonical key derivation, the incremental rebuild (addFromPaths),   *)
(* the validator and the snapshot persistence.                             *)
(*                                                                         *)
(* Strings are sequences of tokens.  A token stands for a fixed, non-empty *)
(* character string ("corpus", "http", "/", "a", ...); the alphabet is     *)
(* chosen so that the substring, prefix and suffix tests of the code       *)
(* coincide with the same tests on token sequences.                        *)
(***************************************************************************)
EXTENDS Integers, Sequences, FiniteSets, TLC

VARIABLES
    now,        \* the clock read by time.time() and stamped on files
    ctime,      \* source files: path -> last-change time, 0 when the file is absent
    disk,       \* snapshot files: location -> NoFile or [ctime, data]
    bundles,    \* the MetadataBundle objects: slot -> NoBundle or [name, entries]
    nextId,     \* allocation counter giving each new MetadataEntry its identity
    call,       \* the addFromPaths call in progress (its local variables)
    ret,        \* outcome of the operation that has just completed
    corpusPaths,\* the source paths callers know of and submit
    arg,        \* the arguments of a corpusPathToKey call under SpecKey
    metadataBundles \* corpora.Corpus._metadataBundles: corpus name -> cached bundle

vars == <<now, ctime, disk, bundles, nextId, call, ret, corpusPaths, arg,
          metadataBundles>>

----------------------------------------------------------------------------
(* Optional values: None is <<>>, a present value v is <<v>>.              *)

None == <<>>

Some(v) == <<v>>

\* the elements of a sequence
Range(seq) == {seq[i] : i \in DOMAIN seq}

----------------------------------------------------------------------------
(* String helpers (str.startswith, str.endswith, in, split, replace).      *)

StartsWith(s, prefix) ==
    /\ Len(s) >= Len(prefix)
    /\ \A i \in 1..Len(prefix) : s[i] = prefix[i]

EndsWith(s, suffix) ==
    /\ Len(s) >= Len(suffix)
    /\ \A i \in 1..Len(suffix) : s[Len(s) - Len(suffix) + i] = suffix[i]

Contains(s, tok) == \E i \in 1..Len(s) : s[i] = tok

\* s.split(tok)[-1]: what follows the last occurrence of tok, s when there is none
SplitLast(s, tok) ==
    IF Contains(s, tok)
    THEN LET last == CHOOSE i \in 1..Len(s) :
                        /\ s[i] = tok
                        /\ \A j \in (i + 1)..Len(s) : s[j] # tok
         IN  SubSeq(s, last + 1, Len(s))
    ELSE s

Replace(s, old, new) == [i \in 1..Len(s) |-> IF s[i] = old THEN new ELSE s[i]]

\* os.sep on the POSIX build
Sep == "/"

----------------------------------------------------------------------------
(* MetadataBundle.corpusPathToKey                                          *)

corpusPathToKey_KeepsLeadingSep(filePath, number) ==
    LET corpusPath1 == IF Contains(filePath, "corpus") \/ Contains(filePath, "music21")
                       THEN SplitLast(filePath, "corpus")
                       ELSE filePath
        corpusPath3 == Replace(Replace(corpusPath1, "/", "_"), Sep, "_")
        corpusPath4 == Replace(corpusPath3, ".", "_")
    IN  IF number # None
        THEN corpusPath4 \o <<"_", ToString(number[1])>>
        ELSE corpusPath4

corpusPathToKey(filePath, number) ==
    LET corpusPath1 == IF Contains(filePath, "corpus") \/ Contains(filePath, "music21")
                       THEN SplitLast(filePath, "corpus")
                       ELSE filePath
        corpusPath2 == IF StartsWith(corpusPath1, <<Sep>>)
                       THEN Tail(corpusPath1)
                       ELSE corpusPath1
        corpusPath3 == Replace(Replace(corpusPath2, "/", "_"), Sep, "_")
        corpusPath4 == Replace(corpusPath3, ".", "_")
    IN  IF number # None
        THEN corpusPath4 \o <<"_", ToString(number[1])>>
        ELSE corpusPath4

----------------------------------------------------------------------------
(* The world the bundles index.                                            *)

MaxTime == 2

MaxAlloc == 2

MaxPaths == 2

\* the working directory os.path.abspath resolves against
Cwd == <<"/", "w">>

\* source documents, as a caller names them
docA == <<"a", "/", "b", ".", "xml">>

docB == <<"/", "w", "/", "a", "_", "b", ".", "xml">>

docO == <<"/", "o", ".", "mxl">>

docR == <<"/", "r", ".", "krn">>

netS == <<"http", "s", ":", "/", "/", "h", "/", "n", ".", "xml">>

netH == <<"http", ":", "/", "/", "h", "/", "n", ".", "xml">>

\* a file of a corpus directory, whose corpus-relative name begins with "http"
docK == <<"/", "corpus", "/", "http", ".", "xml">>

InputPaths == {docA, docB, docO, docR, netS, netH, docK}

\* os.path.isabs
IsAbs(path) == StartsWith(path, <<Sep>>)

\* os.path.abspath, for paths without "." and ".." segments
Abspath(path) == IF IsAbs(path) THEN path ELSE Cwd \o <<Sep>> \o path

\* common.getCorpusFilePath()
CorpusFilePath == <<"/", "music21", "/", "corpus">>

\* the files that can exist on the filesystem of the model
SourceFiles == {Abspath(p) : p \in {q \in InputPaths : ~StartsWith(q, <<"http">>)}}

\* os.path.exists
Exists(path) == path \in DOMAIN ctime /\ ctime[path] > 0

\* bundle names; NoName is Python's None
NoName == "<None>"

Names == {"core"}

\* an explicit file path a caller may pass to read and write
TempFilePath == <<"tmp", "bundle.json">>

\* MetadataBundle.filePath
FilePath(name) ==
    IF name = NoName THEN None
    ELSE IF name \in {"virtual", "core"} THEN <<"cache", name, ".json">>
    ELSE IF name = "local" THEN <<"temp", name, ".json">>
    ELSE <<"temp", "local-", name, ".json">>

Locations == {FilePath(n) : n \in Names} \cup {TempFilePath}

NoFile == [exists |-> FALSE, ctime |-> 0, data |-> <<>>]

\* os.path.exists(filePath)
SnapshotExists_Always(d, filePath) == TRUE

SnapshotExists(d, filePath) == d[filePath].exists

\* os.remove(filePath)
Removed_Nothing(d, filePath) == d

Removed(d, filePath) == [d EXCEPT ![filePath] = NoFile]

NoBundle == [live |-> FALSE, name |-> NoName, entries |-> <<>>]

\* the variables of a caller that hold bundles: two it constructs itself,
\* and one it binds to the result of a search or of a set operation
Slots == {"x", "y", "r"}

Idle == [pc |-> "idle", b |-> "", paths |-> {}, jobs |-> <<>>, pending |-> {},
         errors |-> <<>>, currentIteration |-> 0, parallel |-> FALSE, stamp |-> 0,
         skippedJobsCount |-> 0]

NoRet == [op |-> "none", b |-> "", raised |-> FALSE, value |-> <<>>, args |-> <<>>,
          skipped |-> 0]

----------------------------------------------------------------------------
(* MetadataEntry                                                           *)

\* the constructor; oid is the identity of the new object
MetadataEntry(oid, sourcePath, number, metadataPayload) ==
    [oid |-> oid, sourcePath |-> sourcePath, number |-> number,
     metadataPayload |-> metadataPayload]

\* MetadataEntry.corpusPath
corpusPath(entry) == corpusPathToKey(entry.sourcePath, entry.number)

\* MetadataEntry defines no __eq__: == on entries is object identity
EntryEq(e1, e2) == e1.oid = e2.oid

\* the values an entry carries
EntryValue(entry) ==
    [sourcePath |-> entry.sourcePath, number |-> entry.number,
     metadataPayload |-> entry.metadataPayload]

\* dict.__setitem__
DictSet(d, key, value) ==
    [k \in DOMAIN d \cup {key} |-> IF k = key THEN value ELSE d[k]]

\* the values of a dict of entries, identities dropped
Content(entries) == [k \in DOMAIN entries |-> EntryValue(entries[k])]

----------------------------------------------------------------------------
(* The collaborators: the caching job, the payload search and the codec.   *)

\* the scores a source document holds: <<>> for a single score, the
\* movement numbers for a multi-movement document
Movements(path) == IF path = docO THEN <<1, 2>> ELSE <<>>

\* the metadata derived from a source document; None makes a stub entry
PayloadOf(path) ==
    IF path = docB THEN None
    ELSE IF path = netS THEN Some([composer |-> "beethoven"])
    ELSE Some([composer |-> "bach"])

\* whether the document at path can be loaded: a network document is
\* fetched, a file must be there
Derivable(path) == StartsWith(path, <<"http">>) \/ Exists(path)

\* MetadataCachingJob.run: the entries derived from one source path, or
\* the path as a recorded failure
JobRun(path, stamp) ==
    IF ~Derivable(path)
    THEN [metadataEntries |-> <<>>, errors |-> <<path>>, filePath |-> path]
    ELSE [metadataEntries |->
             IF Movements(path) = <<>>
             THEN <<MetadataEntry(<<stamp, corpusPathToKey(path, None)>>,
                                  path, None, PayloadOf(path))>>
             ELSE [i \in 1..Len(Movements(path)) |->
                     MetadataEntry(
                         <<stamp, corpusPathToKey(path, Some(Movements(path)[i]))>>,
                         path, Some(Movements(path)[i]), PayloadOf(path))],
          errors |-> <<>>,
          filePath |-> path]

\* RichMetadata.search, reduced to whether the query matched
PayloadSearch(payload, query, field) ==
    IF field = None
    THEN \E f \in DOMAIN payload : payload[f] = query
    ELSE field[1] \in DOMAIN payload /\ payload[field[1]] = query

\* JSONFreezer.jsonWrite: what a snapshot holds of the entries
Freeze(entries) == Content(entries)

\* JSONThawer.jsonRead: the entries rebuilt from a snapshot, as new objects
Thaw(data, stamp) ==
    [k \in DOMAIN data |->
        MetadataEntry(<<stamp, k>>, data[k].sourcePath, data[k].number,
                      data[k].metadataPayload)]

----------------------------------------------------------------------------
(* MetadataBundle: the parts of the operations that compute new values.    *)

\* for result in ...: self._metadataEntries[metadataEntry.corpusPath] = metadataEntry
RECURSIVE Merge(_, _)
Merge_KeyedByPath(entries, metadataEntries) ==
    IF metadataEntries = <<>> THEN entries
    ELSE Merge(DictSet(entries,
                       corpusPathToKey(Head(metadataEntries).sourcePath, None),
                       Head(metadataEntries)),
               Tail(metadataEntries))

Merge(entries, metadataEntries) ==
    IF metadataEntries = <<>> THEN entries
    ELSE Merge(DictSet(entries, corpusPath(Head(metadataEntries)),
                       Head(metadataEntries)),
               Tail(metadataEntries))

\* the orders in which validate can meet the entries decide, for every
\* source path, which one of the keys sharing it is met first
FirstsOf(entries) ==
    LET shared == {k \in DOMAIN entries :
                     \E k2 \in DOMAIN entries \ {k} :
                         entries[k2].sourcePath = entries[k].sourcePath}
    IN  {(DOMAIN entries \ shared) \cup F :
            F \in {G \in SUBSET shared :
                     \A k \in shared :
                         Cardinality({f \in G : entries[f].sourcePath
                                                  = entries[k].sourcePath}) = 1}}

\* the path validate tests for existence
ResolvedPath(sourcePath) ==
    IF IsAbs(sourcePath) THEN sourcePath
    ELSE Abspath(CorpusFilePath \o <<Sep>> \o sourcePath)

\* validate: invalidatedKeys, when firsts are the keys met first
InvalidatedKeys_NoExistsTest(entries, firsts) ==
    {k \in firsts : ~StartsWith(entries[k].sourcePath, <<"http", ":">>)}

InvalidatedKeys(entries, firsts) ==
    {k \in firsts :
        /\ ~StartsWith(entries[k].sourcePath, <<"http", ":">>)
        /\ ~Exists(ResolvedPath(entries[k].sourcePath))}

\* validate: the entries left
Validated(entries, firsts) ==
    [k \in DOMAIN entries \ InvalidatedKeys(entries, firsts) |-> entries[k]]

\* write: the snapshot files after bundle.write(filePath) at time t
WriteDisk(d, bundle, filePath, t) ==
    LET filePath1 == IF filePath # None THEN filePath ELSE FilePath(bundle.name)
        \* if self.filePath is not None: filePath = self.filePath
        filePath2 == IF FilePath(bundle.name) # None
                     THEN FilePath(bundle.name)
                     ELSE filePath1
    IN  IF FilePath(bundle.name) # None
        THEN [d EXCEPT ![filePath2] =
                 [exists |-> TRUE, ctime |-> t, data |-> Freeze(bundle.entries)]]
        ELSE d

\* __eq__ between two bundles
BundleEq(self, other) ==
    /\ DOMAIN self.entries = DOMAIN other.entries
    /\ \A k \in DOMAIN self.entries : EntryEq(self.entries[k], other.entries[k])

----------------------------------------------------------------------------
(* addFromPaths                                                            *)

\* if (currentIteration % 50) == 0: self.write()
WritePeriod == 50

\* the path as the scheduling loop uses it
Normalized(path) == IF ~StartsWith(path, <<"http">>) THEN Abspath(path) ELSE path

\* key in self._metadataEntries and not key.startswith('http')
InCache(entries, path) ==
    LET key == corpusPathToKey(path, None)
    IN  key \in DOMAIN entries /\ ~StartsWith(key, <<"http">>)

\* metadataBundleModificationTime
BundleModificationTime(bundle) ==
    IF FilePath(bundle.name) # None /\ disk[FilePath(bundle.name)].exists
    THEN disk[FilePath(bundle.name)].ctime
    ELSE now

\* pathModificationTime < metadataBundleModificationTime: skip the path
Skipped_NotNewer(bundle, path) ==
    /\ InCache(bundle.entries, path)
    /\ ctime[path] <= BundleModificationTime(bundle)

Skipped(bundle, path) ==
    /\ InCache(bundle.entries, path)
    /\ ctime[path] < BundleModificationTime(bundle)

\* os.path.getctime(path) raises OSError for a file that is not there
GetctimeRaises(bundle, path) == InCache(bundle.entries, path) /\ ~Exists(path)

\* the scheduling loop: the paths that get a job, in order
Schedule(bundle, paths) ==
    LET Scheduled(path) == ~Skipped(bundle, path)
    IN  SelectSeq([i \in 1..Len(paths) |-> Normalized(paths[i])], Scheduled)

\* self.validate(); self.write(); return accumulatedErrors
Finish_WriteBeforeValidate(b, entries, errors, d, paths, skippedJobsCount) ==
    \E firsts \in FirstsOf(entries) :
        LET done == [bundles[b] EXCEPT !.entries = Validated(entries, firsts)]
        IN  /\ bundles' = [bundles EXCEPT ![b] = done]
            /\ disk' = WriteDisk(d, [bundles[b] EXCEPT !.entries = entries],
                                 None, now)
            /\ ret' = [op |-> "addFromPaths", b |-> b, raised |-> FALSE,
                       value |-> errors, args |-> paths,
                       skipped |-> skippedJobsCount]
            /\ call' = Idle

Finish(b, entries, errors, d, paths, skippedJobsCount) ==
    \E firsts \in FirstsOf(entries) :
        LET done == [bundles[b] EXCEPT !.entries = Validated(entries, firsts)]
        IN  /\ bundles' = [bundles EXCEPT ![b] = done]
            /\ disk' = WriteDisk(d, done, None, now)
            /\ ret' = [op |-> "addFromPaths", b |-> b, raised |-> FALSE,
                       value |-> errors, args |-> paths,
                       skipped |-> skippedJobsCount]
            /\ call' = Idle

\* the sets of source paths a run works with
Worlds == {{docA, docB}, {docO, netS}, {docK, netH}}

\* the path lists a caller can hand to addFromPaths
PathSeqs == UNION {[1..n -> corpusPaths] : n \in 1..MaxPaths}

AddFromPathsUpTo(b, paths, useMultiprocessing, maxAlloc) ==
    /\ call.pc = "idle"
    /\ UNCHANGED metadataBundles
    /\ bundles[b].live
    /\ UNCHANGED <<now, ctime, corpusPaths, arg>>
    /\ LET jobs == Schedule(bundles[b], paths)
       IN  /\ nextId + Len(jobs) - 1 <= maxAlloc
           /\ IF \E i \in 1..Len(paths) :
                    GetctimeRaises(bundles[b], Normalized(paths[i]))
              THEN /\ ret' = [op |-> "addFromPaths", b |-> b, raised |-> TRUE,
                              value |-> <<>>, args |-> Range(paths), skipped |-> 0]
                   /\ UNCHANGED <<disk, bundles, nextId, call>>
              ELSE /\ nextId' = nextId + Len(jobs)
                   /\ IF jobs = <<>>
                      THEN Finish(b, bundles[b].entries, <<>>, disk, Range(paths),
                                  Len(paths) - Len(jobs))
                      ELSE /\ call' = [pc |-> "merging", b |-> b,
                                       paths |-> Range(paths), jobs |-> jobs,
                                       pending |-> 1..Len(jobs),
                                       errors |-> <<>>, currentIteration |-> 0,
                                       parallel |-> /\ useMultiprocessing
                                                    /\ Len(jobs) > 1,
                                       stamp |-> nextId,
                                       skippedJobsCount |-> Len(paths) - Len(jobs)]
                           /\ UNCHANGED <<disk, bundles, ret>>

\* addFromPaths in a run that creates at most MaxAlloc entries
AddFromPaths(b, paths, useMultiprocessing) ==
    AddFromPathsUpTo(b, paths, useMultiprocessing, MaxAlloc)

\* if (currentIteration % 50) == 0
WriteDue_Never(currentIteration) == FALSE

WriteDue(currentIteration) == currentIteration % WritePeriod = 0

\* one result of jobProcessor(jobs) arrives: job i has completed; the serial
\* processor delivers in job order, the parallel one in any order, and with
\* a single job the two deliver alike
JobCompleted(i) ==
    /\ call.pc = "merging"
    /\ UNCHANGED metadataBundles
    /\ i \in call.pending
    /\ call.parallel \/ \A j \in call.pending : i <= j
    /\ UNCHANGED <<now, ctime, nextId, corpusPaths, arg>>
    /\ LET b == call.b
           result == JobRun(call.jobs[i], call.stamp + i - 1)
           entries == Merge(bundles[b].entries, result.metadataEntries)
           errors == call.errors \o result.errors
           currentIteration == call.currentIteration + 1
           merged == [bundles[b] EXCEPT !.entries = entries]
           d == IF WriteDue(currentIteration)
                THEN WriteDisk(disk, merged, None, now)
                ELSE disk
       IN  IF call.pending = {i}
           THEN Finish(b, entries, errors, d, call.paths, call.skippedJobsCount)
           ELSE /\ bundles' = [bundles EXCEPT ![b] = merged]
                /\ disk' = d
                /\ call' = [call EXCEPT !.pending = @ \ {i}, !.errors = errors,
                                        !.currentIteration = currentIteration]
                /\ UNCHANGED ret

----------------------------------------------------------------------------
(* The other operations of MetadataBundle.                                 *)

Result(op, b, args, value) ==
    [op |-> op, b |-> b, raised |-> FALSE, value |-> value, args |-> args,
     skipped |-> 0]

Raised_AsResult(op, b, args) ==
    [op |-> op, b |-> b, raised |-> FALSE, value |-> <<>>, args |-> args,
     skipped |-> 0]

Raised(op, b, args) ==
    [op |-> op, b |-> b, raised |-> TRUE, value |-> <<>>, args |-> args,
     skipped |-> 0]

\* MetadataBundle(expr), bound to the caller's first variable that is free
New(b, name) ==
    /\ call.pc = "idle"
    /\ UNCHANGED metadataBundles
    /\ b # "r"
    /\ ~bundles[b].live
    /\ b = "y" => bundles["x"].live
    /\ bundles' = [bundles EXCEPT ![b] =
                      [live |-> TRUE, name |-> name, entries |-> <<>>]]
    /\ ret' = Result("__init__", b, <<name>>, <<>>)
    /\ UNCHANGED <<now, ctime, disk, nextId, call, corpusPaths, arg>>

Clear(b) ==
    /\ call.pc = "idle"
    /\ UNCHANGED metadataBundles
    /\ bundles[b].live
    /\ bundles' = [bundles EXCEPT ![b].entries = <<>>]
    /\ ret' = Result("clear", b, <<>>, <<>>)
    /\ UNCHANGED <<now, ctime, disk, nextId, call, corpusPaths, arg>>

Delete(b) ==
    /\ call.pc = "idle"
    /\ UNCHANGED metadataBundles
    /\ bundles[b].live
    /\ disk' = IF FilePath(bundles[b].name) # None
               THEN IF SnapshotExists(disk, FilePath(bundles[b].name))
                    THEN Removed(disk, FilePath(bundles[b].name))
                    ELSE disk
               ELSE disk
    /\ ret' = Result("delete", b, <<>>, <<>>)
    /\ UNCHANGED <<now, ctime, bundles, nextId, call, corpusPaths, arg>>

Validate(b) ==
    /\ call.pc = "idle"
    /\ UNCHANGED metadataBundles
    /\ bundles[b].live
    /\ \E firsts \in FirstsOf(bundles[b].entries) :
          /\ bundles' = [bundles EXCEPT ![b].entries = Validated(@, firsts)]
          /\ ret' = Result("validate", b, <<>>,
                           Cardinality(InvalidatedKeys(bundles[b].entries, firsts)))
    /\ UNCHANGED <<now, ctime, disk, nextId, call, corpusPaths, arg>>

FilePathArgs == {None, TempFilePath}

\* the file paths a caller may pass to read: also the location of a snapshot
ReadPathArgs == FilePathArgs \cup {FilePath("core")}

Write(b, filePath) ==
    /\ call.pc = "idle"
    /\ UNCHANGED metadataBundles
    /\ bundles[b].live
    /\ disk' = WriteDisk(disk, bundles[b], filePath, now)
    /\ ret' = Result("write", b, filePath, <<>>)
    /\ UNCHANGED <<now, ctime, bundles, nextId, call, corpusPaths, arg>>

Read(b, filePath) ==
    /\ call.pc = "idle"
    /\ UNCHANGED metadataBundles
    /\ bundles[b].live
    /\ UNCHANGED <<now, ctime, disk, call, corpusPaths, arg>>
    /\ LET filePath1 == IF filePath = None THEN FilePath(bundles[b].name) ELSE filePath
       IN  IF filePath1 = None /\ bundles[b].name = NoName
           THEN /\ ret' = Raised("read", b, filePath)
                /\ UNCHANGED <<bundles, nextId>>
           ELSE IF ~SnapshotExists(disk, filePath1)
           THEN /\ ret' = Result("read", b, filePath, "absent")
                /\ UNCHANGED <<bundles, nextId>>
           ELSE /\ nextId <= MaxAlloc
                /\ bundles' = [bundles EXCEPT ![b].entries =
                                  Thaw(disk[filePath1].data, nextId)]
                /\ nextId' = nextId + 1
                /\ ret' = Result("read", b, filePath, "loaded")

\* self.clear()
Cleared_Nothing(bundle) == bundle

Cleared(bundle) == [bundle EXCEPT !.entries = <<>>]

\* self.corpus.getPaths(): the paths of the corpus, each once, in some order
CorpusPathLists ==
    {paths \in [1..Cardinality(corpusPaths) -> corpusPaths] :
        \A i, j \in 1..Cardinality(corpusPaths) : i # j => paths[i] # paths[j]}

\* rebuild: on an anonymous bundle it returns at once; on a named one it
\* clears the entries, deletes the snapshot file and runs addFromPaths on
\* the paths of the corpus, whose return is the return of rebuild; ret
\* records, while the results are merged, that the call is a rebuild
Rebuild(b, paths, useMultiprocessing) ==
    /\ call.pc = "idle"
    /\ bundles[b].live
    /\ UNCHANGED <<now, ctime, corpusPaths, arg, metadataBundles>>
    /\ IF FilePath(bundles[b].name) = None
       THEN /\ ret' = Result("rebuild", b, <<>>, b)
            /\ UNCHANGED <<bundles, disk, nextId, call>>
       ELSE LET cleared == Cleared(bundles[b])
                deleted == IF SnapshotExists(disk, FilePath(bundles[b].name))
                           THEN Removed(disk, FilePath(bundles[b].name))
                           ELSE disk
                jobs == Schedule(cleared, paths)
            IN  /\ jobs # <<>>
                /\ nextId + Len(jobs) - 1 <= MaxAlloc + MaxPaths
                /\ bundles' = [bundles EXCEPT ![b] = cleared]
                /\ disk' = deleted
                /\ nextId' = nextId + Len(jobs)
                /\ call' = [pc |-> "merging", b |-> b,
                            paths |-> Range(paths), jobs |-> jobs,
                            pending |-> 1..Len(jobs),
                            errors |-> <<>>, currentIteration |-> 0,
                            parallel |-> /\ useMultiprocessing
                                         /\ Len(jobs) > 1,
                            stamp |-> nextId,
                            skippedJobsCount |-> Len(paths) - Len(jobs)]
                /\ ret' = Result("rebuilding", b, Range(paths), <<>>)

\* the namespaces of corpora.Corpus._metadataBundles
CorpusNames == {"core", "virtual", "local", "local-foo"}

\* a namespace no bundle is cached for
NotCached == [cached |-> FALSE, oid |-> 0, bundle |-> NoBundle]

NoMetadataBundles == [corpusName \in CorpusNames |-> NotCached]

\* __len__, which decides the truth value of a bundle
Len_(bundle) == Cardinality(DOMAIN bundle.entries)

\* cls(corpusName).read(): a new bundle filled from its snapshot file
ReadNew(corpusName, d, stamp) ==
    [live |-> TRUE, name |-> corpusName,
     entries |-> IF SnapshotExists(d, FilePath(corpusName))
                 THEN Thaw(d[FilePath(corpusName)].data, stamp)
                 ELSE <<>>]

\* return corpora.Corpus._metadataBundles[corpusName]
Reuse(op, corpusName) ==
    /\ ret' = Result(op, "", corpusName, metadataBundles[corpusName].oid)
    /\ UNCHANGED <<metadataBundles, nextId>>

\* bundle = cls(corpusName).read(); _metadataBundles[corpusName] = bundle
Load(op, corpusName) ==
    /\ nextId <= MaxAlloc
    /\ metadataBundles' =
          [metadataBundles EXCEPT ![corpusName] =
              [cached |-> TRUE, oid |-> nextId,
               bundle |-> ReadNew(corpusName, disk, nextId)]]
    /\ nextId' = nextId + 1
    /\ ret' = Result(op, "", corpusName, nextId)

FromCoreCorpus ==
    /\ call.pc = "idle"
    /\ UNCHANGED <<now, ctime, disk, bundles, call, corpusPaths, arg>>
    /\ LET corpusName == "core"
       IN  IF /\ metadataBundles[corpusName].cached
              /\ Len_(metadataBundles[corpusName].bundle) # 0
           THEN Reuse("fromCoreCorpus", corpusName)
           ELSE Load("fromCoreCorpus", corpusName)

\* 'local-{0}'.format(name)
LocalCorpusName(name) ==
    IF name = NoName \/ name = "local" THEN "local" ELSE "local-foo"

LocalNames == {NoName, "local", "foo"}

FromLocalCorpus(name) ==
    /\ call.pc = "idle"
    /\ UNCHANGED <<now, ctime, disk, bundles, call, corpusPaths, arg>>
    /\ LET corpusName == LocalCorpusName(name)
       IN  IF metadataBundles[corpusName].cached
           THEN Reuse("fromLocalCorpus", corpusName)
           ELSE Load("fromLocalCorpus", corpusName)

FromVirtualCorpus ==
    /\ call.pc = "idle"
    /\ UNCHANGED <<now, ctime, disk, bundles, call, corpusPaths, arg>>
    /\ LET corpusName == "virtual"
       IN  IF /\ metadataBundles[corpusName].cached
              /\ Len_(metadataBundles[corpusName].bundle) # 0
           THEN Reuse("fromVirtualCorpus", corpusName)
           ELSE Load("fromVirtualCorpus", corpusName)

Queries == {"bach"}

Fields == {None, Some("composer")}

ExtensionFilters == {None, Some({<<".", "xml">>}), Some({<<".", "krn">>})}

\* the extension filter of search
Include_LiteralOnly(sourcePath, fileExtensions) ==
    IF fileExtensions # None
    THEN \E fileExtension \in fileExtensions[1] :
            EndsWith(sourcePath, fileExtension)
    ELSE TRUE

Include(sourcePath, fileExtensions) ==
    IF fileExtensions # None
    THEN \E fileExtension \in fileExtensions[1] :
            \/ EndsWith(sourcePath, fileExtension)
            \/ /\ EndsWith(fileExtension, <<"xml">>)
               /\ sourcePath[Len(sourcePath)] \in {"mxl", "mx"}
    ELSE TRUE

SearchResult_Copies(entries, query, field, fileExtensions) ==
    [key \in {k \in DOMAIN entries :
                /\ entries[k].metadataPayload # None
                /\ PayloadSearch(entries[k].metadataPayload[1], query, field)
                /\ Include(entries[k].sourcePath, fileExtensions)}
        |-> MetadataEntry(<<0, key>>, entries[key].sourcePath,
                          entries[key].number, entries[key].metadataPayload)]

SearchResult_FreshCopies(entries, query, field, fileExtensions) ==
    [key \in {k \in DOMAIN entries :
                /\ entries[k].metadataPayload # None
                /\ PayloadSearch(entries[k].metadataPayload[1], query, field)
                /\ Include(entries[k].sourcePath, fileExtensions)}
        |-> MetadataEntry(<<entries[key].oid[1] + 1, key>>,
                          entries[key].sourcePath, entries[key].number,
                          entries[key].metadataPayload)]

SearchResult_KeepsStubs(entries, query, field, fileExtensions) ==
    [key \in {k \in DOMAIN entries :
                \/ entries[k].metadataPayload = None
                \/ /\ PayloadSearch(entries[k].metadataPayload[1], query, field)
                   /\ Include(entries[k].sourcePath, fileExtensions)}
        |-> entries[key]]

SearchResult(entries, query, field, fileExtensions) ==
    [key \in {k \in DOMAIN entries :
                /\ entries[k].metadataPayload # None
                /\ PayloadSearch(entries[k].metadataPayload[1], query, field)
                /\ Include(entries[k].sourcePath, fileExtensions)}
        |-> entries[key]]

\* search: the bundle returned
SearchBundle(self, query, field, fileExtensions) ==
    [live |-> TRUE, name |-> NoName,
     entries |-> SearchResult(self.entries, query, field, fileExtensions)]

Search(b, query, field, fileExtensions) ==
    /\ call.pc = "idle"
    /\ UNCHANGED metadataBundles
    /\ bundles[b].live
    /\ bundles' = [bundles EXCEPT !["r"] =
                      SearchBundle(bundles[b], query, field, fileExtensions)]
    /\ ret' = Result("search", b, <<>>, "r")
    /\ UNCHANGED <<now, ctime, disk, nextId, call, corpusPaths, arg>>

\* the operators, and with them the methods, that end in
\* _apply_set_operation
Operators == {"__and__", "__or__", "__sub__", "__xor__"}

SetOperators ==
    Operators \cup {"intersection", "union", "difference", "symmetric_difference"}

\* values a caller can pass for the other bundle that are not bundles
NonBundles == {"foo"}

Operands == Slots \cup NonBundles

\* isinstance(metadataBundle, type(self)) / type(self) == type(other)
IsBundle(operand) == operand \in Slots

\* getattr(selfKeys, operator)(otherKeys)
ResultKeys_UnionAsSymmetricDifference(selfKeys, otherKeys, operator) ==
    IF operator \in {"__and__", "intersection"} THEN selfKeys \cap otherKeys
    ELSE IF operator \in {"__sub__", "difference"} THEN selfKeys \ otherKeys
    ELSE (selfKeys \ otherKeys) \cup (otherKeys \ selfKeys)

ResultKeys_IntersectionAsDifference(selfKeys, otherKeys, operator) ==
    IF operator \in {"__or__", "union"} THEN selfKeys \cup otherKeys
    ELSE IF operator \in {"__and__", "intersection", "__sub__", "difference"}
    THEN selfKeys \ otherKeys
    ELSE (selfKeys \ otherKeys) \cup (otherKeys \ selfKeys)

ResultKeys(selfKeys, otherKeys, operator) ==
    IF operator \in {"__and__", "intersection"} THEN selfKeys \cap otherKeys
    ELSE IF operator \in {"__or__", "union"} THEN selfKeys \cup otherKeys
    ELSE IF operator \in {"__sub__", "difference"} THEN selfKeys \ otherKeys
    ELSE (selfKeys \ otherKeys) \cup (otherKeys \ selfKeys)

\* _apply_set_operation: the entries of the result bundle
SetOperationResult_PrefersOther(self, other, operator) ==
    [key \in ResultKeys(DOMAIN self.entries, DOMAIN other.entries, operator) |->
        IF key \in DOMAIN other.entries
        THEN other.entries[key]
        ELSE self.entries[key]]

SetOperationResult(self, other, operator) ==
    [key \in ResultKeys(DOMAIN self.entries, DOMAIN other.entries, operator) |->
        IF key \in DOMAIN self.entries
        THEN self.entries[key]
        ELSE other.entries[key]]

\* _apply_set_operation: the bundle returned
SetOperation_KeepsName(self, other, operator) ==
    [live |-> TRUE, name |-> self.name,
     entries |-> SetOperationResult(self, other, operator)]

SetOperation(self, other, operator) ==
    [live |-> TRUE, name |-> NoName,
     entries |-> SetOperationResult(self, other, operator)]

\* the result is bound to "r"; an operand that is not a bundle fails the
\* assertion at the head of _apply_set_operation
ApplySetOperation(b, other, operator) ==
    /\ call.pc = "idle"
    /\ UNCHANGED metadataBundles
    /\ bundles[b].live
    /\ IsBundle(other) => bundles[other].live
    /\ IF ~IsBundle(other)
       THEN /\ ret' = Raised("setop", "", <<other>>)
            /\ UNCHANGED bundles
       ELSE /\ bundles' = [bundles EXCEPT !["r"] =
                             SetOperation(bundles[b], bundles[other], operator)]
            /\ ret' = Result("setop", "", <<>>, "r")
    /\ UNCHANGED <<now, ctime, disk, nextId, call, corpusPaths, arg>>

\* the comparisons and the methods that end in _apply_set_predicate
SetPredicates == {"issubset", "issuperset", "isdisjoint",
                  "__lt__", "__le__", "__gt__", "__ge__"}

\* getattr(selfKeys, predicate)(otherKeys)
PredicateValue_ProperAsImproper(selfKeys, otherKeys, predicate) ==
    IF predicate \in {"issubset", "__le__", "__lt__"}
    THEN selfKeys \subseteq otherKeys
    ELSE IF predicate \in {"issuperset", "__ge__", "__gt__"}
    THEN otherKeys \subseteq selfKeys
    ELSE selfKeys \cap otherKeys = {}

PredicateValue(selfKeys, otherKeys, predicate) ==
    IF predicate \in {"issubset", "__le__"} THEN selfKeys \subseteq otherKeys
    ELSE IF predicate \in {"issuperset", "__ge__"} THEN otherKeys \subseteq selfKeys
    ELSE IF predicate = "__lt__"
    THEN selfKeys \subseteq otherKeys /\ selfKeys # otherKeys
    ELSE IF predicate = "__gt__"
    THEN otherKeys \subseteq selfKeys /\ selfKeys # otherKeys
    ELSE selfKeys \cap otherKeys = {}

\* _apply_set_predicate
ApplySetPredicate(b, other, predicate) ==
    /\ call.pc = "idle"
    /\ UNCHANGED metadataBundles
    /\ bundles[b].live
    /\ IsBundle(other) => bundles[other].live
    /\ ret' = IF ~IsBundle(other)
              THEN Raised("setpred", "", <<other>>)
              ELSE Result("setpred", "", <<>>,
                          PredicateValue(DOMAIN bundles[b].entries,
                                         DOMAIN bundles[other].entries,
                                         predicate))
    /\ UNCHANGED <<now, ctime, disk, bundles, nextId, call, corpusPaths, arg>>

\* self == other
Eq(b, other) ==
    /\ call.pc = "idle"
    /\ UNCHANGED metadataBundles
    /\ bundles[b].live
    /\ IsBundle(other) => bundles[other].live
    /\ ret' = Result("__eq__", b, <<other>>,
                     IsBundle(other) /\ BundleEq(bundles[b], bundles[other]))
    /\ UNCHANGED <<now, ctime, disk, bundles, nextId, call, corpusPaths, arg>>

\* the depth of nested calls at which the interpreter raises RecursionError
RecursionLimit == 3

\* __ne__: return self != expr, which is a call of __ne__ again
RECURSIVE NeOutcome(_, _, _)
NeOutcome(b, other, depth) ==
    IF depth >= RecursionLimit
    THEN Raised("__ne__", b, <<other>>)
    ELSE NeOutcome(b, other, depth + 1)

\* self != other
Ne(b, other) ==
    /\ call.pc = "idle"
    /\ bundles[b].live
    /\ IsBundle(other) => bundles[other].live
    /\ ret' = NeOutcome(b, other, 1)
    /\ UNCHANGED <<now, ctime, disk, bundles, nextId, call, corpusPaths, arg,
                   metadataBundles>>

----------------------------------------------------------------------------
(* The environment: time passes, source files are changed and removed.     *)

Tick ==
    /\ call.pc = "idle"
    /\ UNCHANGED metadataBundles
    /\ now < MaxTime
    /\ now' = now + 1
    /\ ret' = NoRet
    /\ UNCHANGED <<ctime, disk, bundles, nextId, call, corpusPaths, arg>>

Touch(file) ==
    /\ call.pc = "idle"
    /\ UNCHANGED metadataBundles
    /\ file \in {Abspath(p) : p \in corpusPaths}
    /\ ctime' = [ctime EXCEPT ![file] = now]
    /\ ret' = NoRet
    /\ UNCHANGED <<now, disk, bundles, nextId, call, corpusPaths, arg>>

Remove(file) ==
    /\ call.pc = "idle"
    /\ UNCHANGED metadataBundles
    /\ Exists(file)
    /\ ctime' = [ctime EXCEPT ![file] = 0]
    /\ ret' = NoRet
    /\ UNCHANGED <<now, disk, bundles, nextId, call, corpusPaths, arg>>

----------------------------------------------------------------------------
(* Specifications.                                                         *)

\* a world: its files exist, changed at time 1, or are absent
InitWorld ==
    /\ now = 1
    /\ corpusPaths \in Worlds
    /\ ctime \in [SourceFiles -> {0, 1}]
    /\ \A f \in SourceFiles : f \notin {Abspath(p) : p \in corpusPaths} => ctime[f] = 0
    /\ disk = [l \in Locations |-> NoFile]
    /\ nextId = 1
    /\ call = Idle
    /\ metadataBundles = NoMetadataBundles
    /\ ret = NoRet
    /\ arg = <<>>

\* Spec: the rebuild pipeline on one bundle, named or anonymous, in a world
\* whose files change over time
Init ==
    /\ InitWorld
    /\ \E name \in Names \cup {NoName} :
          bundles = [s \in Slots |->
                        IF s = "x"
                        THEN [live |-> TRUE, name |-> name, entries |-> <<>>]
                        ELSE NoBundle]

Next ==
    \/ \E b \in Slots, paths \in PathSeqs, useMultiprocessing \in BOOLEAN :
          AddFromPaths(b, paths, useMultiprocessing)
    \/ \E i \in 1..MaxPaths : JobCompleted(i)
    \/ \E b \in Slots : Clear(b)
    \/ \E b \in Slots : Delete(b)
    \/ \E b \in Slots : Validate(b)
    \/ \E b \in Slots, filePath \in FilePathArgs : Write(b, filePath)
    \/ Tick
    \/ \E file \in SourceFiles : Touch(file)
    \/ \E file \in SourceFiles : Remove(file)

Spec == Init /\ [][Next]_vars

\* SpecBundles: anonymous bundles built, combined and searched, in a world
\* that stays as it is
InitBundles ==
    /\ InitWorld
    /\ \A p \in corpusPaths : Abspath(p) \in SourceFiles => ctime[Abspath(p)] = 1
    /\ bundles = [s \in Slots |-> NoBundle]

NextBundles ==
    \/ \E b \in Slots : New(b, NoName)
    \/ \E b \in Slots, paths \in PathSeqs : AddFromPaths(b, paths, FALSE)
    \/ \E i \in 1..MaxPaths : JobCompleted(i)
    \/ \E b \in Slots : Clear(b)
    \/ \E b \in Slots : Validate(b)
    \/ \E b \in Slots, query \in Queries, field \in Fields,
          fileExtensions \in ExtensionFilters :
          Search(b, query, field, fileExtensions)
    \/ \E b \in Slots, other \in Slots, operator \in Operators :
          ApplySetOperation(b, other, operator)

SpecBundles == InitBundles /\ [][NextBundles]_vars

\* SpecStore: bundles built, written to their snapshots, read back and
\* compared, in a world that stays as it is
NextStore ==
    \/ \E b \in Slots, name \in Names \cup {NoName} : New(b, name)
    \/ \E b \in Slots, paths \in PathSeqs : AddFromPaths(b, paths, FALSE)
    \/ \E i \in 1..MaxPaths : JobCompleted(i)
    \/ \E b \in Slots, filePath \in FilePathArgs : Write(b, filePath)
    \/ \E b \in Slots, filePath \in ReadPathArgs : Read(b, filePath)
    \/ \E b \in Slots : Delete(b)
    \/ \E b \in Slots, other \in Slots : Eq(b, other)

SpecStore == InitBundles /\ [][NextStore]_vars

\* SpecAlgebra: bundles built from a multi-movement document and a network
\* document, then combined and compared with each other and with values
\* that are not bundles
AlgebraWorlds == {{docO, netH}}

InitAlgebra ==
    /\ now = 1
    /\ corpusPaths \in AlgebraWorlds
    /\ ctime = [f \in SourceFiles |->
                  IF f \in {Abspath(p) : p \in corpusPaths} THEN 1 ELSE 0]
    /\ disk = [l \in Locations |-> NoFile]
    /\ bundles = [s \in Slots |-> NoBundle]
    /\ nextId = 1
    /\ call = Idle
    /\ metadataBundles = NoMetadataBundles
    /\ ret = NoRet
    /\ arg = <<>>

NextAlgebra ==
    \/ \E name \in Names \cup {NoName} : New("x", name)
    \/ New("y", NoName)
    \/ \E b \in Slots, paths \in PathSeqs : AddFromPaths(b, paths, FALSE)
    \/ \E i \in 1..MaxPaths : JobCompleted(i)
    \/ \E b \in Slots, other \in Operands, operator \in SetOperators :
          ApplySetOperation(b, other, operator)
    \/ \E b \in Slots, other \in Operands, predicate \in SetPredicates :
          ApplySetPredicate(b, other, predicate)
    \/ \E b \in Slots, other \in NonBundles : Eq(b, other)

SpecAlgebra == InitAlgebra /\ [][NextAlgebra]_vars

\* SpecSearch: one bundle built from documents of several formats, one of
\* them without metadata, and searched, as its results are, with every
\* extension filter
SearchWorlds == {{docO, docR, docB}}

Extensions == {<<".", "xml">>, <<".", "krn">>, <<".", "mxl">>}

FilterSets == {None} \cup {Some(S) : S \in SUBSET Extensions}

InitSearch ==
    /\ now = 1
    /\ corpusPaths \in SearchWorlds
    /\ ctime = [f \in SourceFiles |->
                  IF f \in {Abspath(p) : p \in corpusPaths} THEN 1 ELSE 0]
    /\ disk = [l \in Locations |-> NoFile]
    /\ bundles = [s \in Slots |-> NoBundle]
    /\ nextId = 1
    /\ call = Idle
    /\ metadataBundles = NoMetadataBundles
    /\ ret = NoRet
    /\ arg = <<>>

NextSearch ==
    \/ \E name \in Names \cup {NoName} : New("x", name)
    \/ \E b \in Slots, paths \in PathSeqs : AddFromPaths(b, paths, FALSE)
    \/ \E i \in 1..MaxPaths : JobCompleted(i)
    \/ \E b \in Slots, query \in Queries, field \in Fields,
          fileExtensions \in FilterSets :
          Search(b, query, field, fileExtensions)

SpecSearch == InitSearch /\ [][NextSearch]_vars

\* SpecKey: corpusPathToKey applied to two inputs
MaxLen == 2

KeyAlphabet == {"/", ".", "_", "a", "1", "corpus"}

KeyPaths == UNION {[1..n -> KeyAlphabet] : n \in 1..MaxLen}

KeyInputs == KeyPaths \X {None, Some(1)}

InitKey ==
    /\ arg \in KeyInputs \X KeyInputs
    /\ now = 1
    /\ corpusPaths = {}
    /\ ctime = [f \in SourceFiles |-> 0]
    /\ disk = [l \in Locations |-> NoFile]
    /\ bundles = [s \in Slots |-> NoBundle]
    /\ nextId = 1
    /\ call = Idle
    /\ metadataBundles = NoMetadataBundles
    /\ ret = NoRet

KeyCall ==
    /\ ret.op = "none"
    /\ UNCHANGED metadataBundles
    /\ ret' = Result("corpusPathToKey", "", <<>>,
                     <<corpusPathToKey(arg[1][1], arg[1][2]),
                       corpusPathToKey(arg[2][1], arg[2][2])>>)
    /\ UNCHANGED <<now, ctime, disk, bundles, nextId, call, corpusPaths, arg>>

SpecKey == InitKey /\ [][KeyCall]_vars

\* SpecDerive: corpusPathToKey applied to one input, over paths that may
\* also name the music21 directory
DeriveInputs ==
    (UNION {[1..n -> KeyAlphabet \cup {"music21"}] : n \in 1..MaxLen})
        \X {None, Some(1)}

InitDerive ==
    /\ \E input \in DeriveInputs : arg = <<input, input>>
    /\ now = 1
    /\ corpusPaths = {}
    /\ ctime = [f \in SourceFiles |-> 0]
    /\ disk = [l \in Locations |-> NoFile]
    /\ bundles = [s \in Slots |-> NoBundle]
    /\ nextId = 1
    /\ call = Idle
    /\ metadataBundles = NoMetadataBundles
    /\ ret = NoRet

SpecDerive == InitDerive /\ [][KeyCall]_vars

\* SpecCompare: two anonymous bundles built and compared with == and !=
NextCompare ==
    \/ \E b \in {"x", "y"} : New(b, NoName)
    \/ \E b \in Slots, paths \in PathSeqs : AddFromPaths(b, paths, FALSE)
    \/ \E i \in 1..MaxPaths : JobCompleted(i)
    \/ \E b \in Slots, other \in Operands : Eq(b, other)
    \/ \E b \in Slots, other \in Operands : Ne(b, other)

SpecCompare == InitAlgebra /\ [][NextCompare]_vars

\* SpecRebuild: one bundle, named or anonymous, filled by addFromPaths and
\* rebuilt from its corpus, whose files may disappear
NextRebuild ==
    \/ \E paths \in PathSeqs : AddFromPaths("x", paths, FALSE)
    \/ \E i \in 1..MaxPaths : JobCompleted(i)
    \/ \E file \in SourceFiles : Remove(file)
    \/ \E paths \in CorpusPathLists, useMultiprocessing \in BOOLEAN :
          Rebuild("x", paths, useMultiprocessing)

SpecRebuild == Init /\ [][NextRebuild]_vars

----------------------------------------------------------------------------
(* The bundles cached per corpus: fromCoreCorpus, fromLocalCorpus and        *)
(* fromVirtualCorpus over snapshot files that hold one entry, hold none, or  *)
(* are missing.                                                              *)

\* the snapshot of a bundle built from the documents docs
SnapshotOf(docs) ==
    [k \in {corpusPathToKey(p, None) : p \in docs} |->
        LET p == CHOOSE p \in docs : corpusPathToKey(p, None) = k
        IN  EntryValue(MetadataEntry(<<0, k>>, p, None, PayloadOf(p)))]

SnapshotFiles ==
    {NoFile} \cup {[exists |-> TRUE, ctime |-> 1, data |-> SnapshotOf(docs)] :
                      docs \in {{}, {docA}}}

InitCache ==
    /\ now = 1
    /\ corpusPaths = {}
    /\ ctime = [f \in SourceFiles |-> 0]
    /\ disk \in [{FilePath(n) : n \in CorpusNames} -> SnapshotFiles]
    /\ bundles = [s \in Slots |-> NoBundle]
    /\ nextId = 1
    /\ call = Idle
    /\ metadataBundles = NoMetadataBundles
    /\ ret = NoRet
    /\ arg = <<>>

NextCache ==
    \/ FromCoreCorpus
    \/ \E name \in LocalNames : FromLocalCorpus(name)
    \/ FromVirtualCorpus

SpecCache == InitCache /\ [][NextCache]_vars

----------------------------------------------------------------------------
(* Long runs: one addFromPaths call over many documents, each its own file,  *)
(* on a new bundle, the results arriving in job order.                       *)

\* the most jobs of a run
MaxJobs == 101

\* the i-th document of a long run
docN(i) == <<"/", "d", ToString(i), ".", "xml">>

LongPaths(n) == [i \in 1..n |-> docN(i)]

\* runs that end before, at and after a periodic write
RunLengths == {WritePeriod - 1, MaxJobs - 1, MaxJobs}

InitLong ==
    /\ now = 1
    /\ corpusPaths = {docN(i) : i \in 1..MaxJobs}
    /\ ctime = [f \in corpusPaths |-> 1]
    /\ disk = [l \in Locations |-> NoFile]
    /\ bundles = [s \in Slots |-> NoBundle]
    /\ nextId = 1
    /\ call = Idle
    /\ metadataBundles = NoMetadataBundles
    /\ ret = NoRet
    /\ arg = <<>>

NextLong ==
    \/ \E name \in Names \cup {NoName} : New("x", name)
    \/ \E n \in RunLengths : AddFromPathsUpTo("x", LongPaths(n), FALSE, MaxJobs)
    \/ \E i \in 1..MaxJobs : JobCompleted(i)

SpecLong == InitLong /\ [][NextLong]_vars

----------------------------------------------------------------------------
(* Properties.                                                             *)

\* a source path addFromPaths treats as a network location
NetworkAddressed(path) == StartsWith(path, <<"http">>)

\* C1: after validate() returns, the bundle holds no entry whose source is
\* not network-addressed and does not exist on the filesystem, also when
\* several entries share the missing source path.
C1_ValidateRemovesEveryMissing ==
    (call.pc = "idle" /\ ret.op = "validate") =>
        \A k \in DOMAIN bundles[ret.b].entries :
            \/ NetworkAddressed(bundles[ret.b].entries[k].sourcePath)
            \/ Exists(ResolvedPath(bundles[ret.b].entries[k].sourcePath))

\* a step that runs the scheduling loop of addFromPaths without raising:
\* it leaves the call merging, or returns at once when no job was scheduled
SchedulingStep ==
    /\ call.pc = "idle"
    /\ \/ call'.pc = "merging"
       \/ ret'.op = "addFromPaths" /\ ~ret'.raised

\* the bundle and the paths of that call, and the paths it gave a job
SchedulingBundle == IF call'.pc = "merging" THEN call'.b ELSE ret'.b

SchedulingPaths == IF call'.pc = "merging" THEN call'.paths ELSE ret'.args

ScheduledNext == IF call'.pc = "merging" THEN Range(call'.jobs) ELSE {}

\* C2 as amended: a filesystem path whose key is in entries (and does not
\* begin with "http") is skipped exactly when its source's last-change time
\* is strictly earlier than the snapshot's, and gets a job when it is equal
\* or newer; a path whose key is not in entries always gets a job.
C2_SkippedIffStrictlyOlder ==
    [][SchedulingStep =>
          \A given \in SchedulingPaths :
              LET bundle == bundles[SchedulingBundle]
                  path == Normalized(given)
                  key == corpusPathToKey(path, None)
              IN  /\ (/\ key \in DOMAIN bundle.entries
                      /\ ~NetworkAddressed(given)
                      /\ ~StartsWith(key, <<"http">>))
                     => (path \notin ScheduledNext
                           <=> ctime[path] < BundleModificationTime(bundle))
                  /\ key \notin DOMAIN bundle.entries
                     => path \in ScheduledNext]_vars

\* C2 witness: one call has skipped a cached path and given another a job.
C2_Witness ==
    /\ ret.op = "addFromPaths"
    /\ ~ret.raised
    /\ ret.skipped = 1
    /\ Cardinality(ret.args) = 2

\* C2 as stated: the cached filesystem path is skipped exactly when its
\* source is not newer than (at most as new as) the snapshot.
C2_SkippedIffNotNewer ==
    [][SchedulingStep =>
          \A given \in SchedulingPaths :
              LET bundle == bundles[SchedulingBundle]
                  path == Normalized(given)
                  key == corpusPathToKey(path, None)
              IN  /\ (/\ key \in DOMAIN bundle.entries
                      /\ ~NetworkAddressed(given)
                      /\ ~StartsWith(key, <<"http">>))
                     => (path \notin ScheduledNext
                           <=> ctime[path] <= BundleModificationTime(bundle))
                  /\ key \notin DOMAIN bundle.entries
                     => path \in ScheduledNext]_vars

\* C3: when addFromPaths returns, the returned list holds only input paths,
\* every other input path has its canonical key in entries, and the entries
\* are at least as many as the distinct input paths that did not fail.
C3_FailedOrPresent ==
    (ret.op = "addFromPaths" /\ ~ret.raised) =>
        LET inputs == {Normalized(path) : path \in ret.args}
            failed == Range(ret.value)
        IN  /\ failed \subseteq inputs
            /\ \A path \in inputs \ failed :
                  corpusPathToKey(path, None) \in DOMAIN bundles[ret.b].entries
            /\ Cardinality(DOMAIN bundles[ret.b].entries)
                  >= Cardinality(inputs \ failed)

\* C4: addFromPaths never raises because of a single source document.
C4_NeverRaises == ret.op = "addFromPaths" => ~ret.raised

\* the orders in which the jobs still pending can complete
Orders(S) ==
    {o \in [1..Cardinality(S) -> S] :
        \A i, j \in 1..Cardinality(S) : i # j => o[i] # o[j]}

\* the entries once the pending jobs have completed in the given order
RECURSIVE MergedInOrder(_, _)
MergedInOrder(entries, order) ==
    IF order = <<>> THEN entries
    ELSE MergedInOrder(
             Merge(entries,
                   JobRun(call.jobs[Head(order)],
                          call.stamp + Head(order) - 1).metadataEntries),
             Tail(order))

\* C5: the content of entries after all jobs of a call have completed is
\* the same for every order in which they complete.
C5_OrderIndependent ==
    call.pc = "merging" =>
        \A o1, o2 \in Orders(call.pending) :
            Content(MergedInOrder(bundles[call.b].entries, o1))
                = Content(MergedInOrder(bundles[call.b].entries, o2))

\* C6: two different (sourcePath, number) pairs never yield the same key.
C6_CollisionFree ==
    (ret.op = "corpusPathToKey" /\ arg[1] # arg[2]) => ret.value[1] # ret.value[2]

\* C7: in every state, each key of every bundle is the canonical key of the
\* entry it holds.
C7_KeysAreCanonical ==
    \A b \in Slots :
        \A k \in DOMAIN bundles[b].entries : k = corpusPath(bundles[b].entries[k])

\* C7 witness: a bundle returned by a set operation holds the numbered
\* entries of a multi-movement document.
C7_Witness ==
    /\ ret.op = "setop"
    /\ Cardinality(DOMAIN bundles["r"].entries) = 2
    /\ \A k \in DOMAIN bundles["r"].entries : bundles["r"].entries[k].number # None

\* C8: a populated named bundle written to its snapshot and read back into
\* another bundle of the same namespace compares equal to that bundle.
C8_RoundTripEqual ==
    \A a, f \in Slots :
        (/\ ret.op = "read" /\ ret.value = "loaded" /\ ret.b = f /\ ret.args = None
         /\ a # f
         /\ bundles[a].live
         /\ bundles[a].name = bundles[f].name
         /\ DOMAIN bundles[a].entries # {}
         /\ disk[FilePath(bundles[a].name)].data = Freeze(bundles[a].entries))
        => BundleEq(bundles[f], bundles[a])

\* C9: two bundles compare equal exactly when they have the same keys and
\* at each key entries with the same sourcePath, number and payload,
\* whatever their names.
C9_EqIsValueEquality ==
    ret.op = "__eq__" =>
        (ret.value <=> Content(bundles[ret.b].entries)
                          = Content(bundles[ret.args[1]].entries))

\* C10: write(path) serializes the entries to that path, for an anonymous
\* bundle as for a named one; write() on a named bundle writes to the
\* location of its name; write() on an anonymous bundle writes nothing.
C10_WriteHonoursPath ==
    [][\A b \in Slots, filePath \in FilePathArgs :
          Write(b, filePath) =>
              /\ filePath # None =>
                    /\ disk'[filePath].exists
                    /\ disk'[filePath].data = Freeze(bundles[b].entries)
              /\ (filePath = None /\ bundles[b].name # NoName) =>
                    /\ disk'[FilePath(bundles[b].name)].exists
                    /\ disk'[FilePath(bundles[b].name)].data
                          = Freeze(bundles[b].entries)
              /\ (filePath = None /\ bundles[b].name = NoName) => disk' = disk]_vars

\* a step in which validate() has run on a bundle: a call of validate, or
\* the return of an addFromPaths that did not raise
ValidateCallStep == call.pc = "idle" /\ call'.pc = "idle" /\ ret'.op = "validate"

ValidatingStep ==
    \/ ValidateCallStep
    \/ call'.pc = "idle" /\ ret'.op = "addFromPaths" /\ ~ret'.raised

\* C11: validate() never removes an entry whose source is network-addressed
\* as addFromPaths understands it (the path starts with "http"), whether or
\* not a file of that name exists.
C11_ValidateKeepsNetworkAddressed ==
    [][ValidatingStep =>
          \A k \in DOMAIN bundles[ret'.b].entries :
              NetworkAddressed(bundles[ret'.b].entries[k].sourcePath)
                  => k \in DOMAIN bundles'[ret'.b].entries]_vars

\* C12: validate() returns the number of entries it removed, every entry
\* whose source exists keeps its key and value, and with exactly one entry,
\* whose source file was deleted, it returns 1 and the key is absent.
C12_ValidateReturnsRemovedCount ==
    [][ValidateCallStep =>
          \A before \in {bundles[ret'.b].entries},
             after \in {bundles'[ret'.b].entries} :
              /\ ret'.value = Cardinality(DOMAIN before) - Cardinality(DOMAIN after)
              /\ DOMAIN after \subseteq DOMAIN before
              /\ \A k \in DOMAIN before :
                    Exists(ResolvedPath(before[k].sourcePath))
                        => k \in DOMAIN after /\ after[k] = before[k]
              /\ \A k \in DOMAIN before :
                    (/\ DOMAIN before = {k}
                     /\ IsAbs(before[k].sourcePath)
                     /\ ~Exists(before[k].sourcePath))
                        => ret'.value = 1 /\ k \notin DOMAIN after]_vars

\* C12 witness: validate() has returned 1 and left the bundle empty, the
\* file of its one entry being gone.
C12_Witness ==
    /\ call.pc = "idle"
    /\ ret.op = "validate"
    /\ ret.value = 1
    /\ DOMAIN bundles[ret.b].entries = {}
    /\ \E p \in corpusPaths : ~NetworkAddressed(p) /\ ~Exists(Abspath(p))

\* the bundles a caller holds
Live == {b \in Slots : bundles[b].live}

\* len(bundle)
Size(bundle) == Cardinality(DOMAIN bundle.entries)

\* C13: A.intersection(B) == B.intersection(A) for all bundles A and B,
\* also when they were built independently and hold different entry
\* objects at a shared key.
C13_IntersectionCommutes ==
    \A a \in Live, b \in Live :
        BundleEq(SetOperation(bundles[a], bundles[b], "intersection"),
                 SetOperation(bundles[b], bundles[a], "intersection"))

\* C14: A.union(B).union(B) == A.union(B) for all bundles A and B.
C14_UnionIdempotent ==
    \A a \in Live, b \in Live :
        BundleEq(SetOperation(SetOperation(bundles[a], bundles[b], "union"),
                              bundles[b], "union"),
                 SetOperation(bundles[a], bundles[b], "union"))

\* C14 witness: the union of two bundles that were built independently,
\* share a key and hold different entry objects has been taken.
C14_Witness ==
    /\ ret.op = "setop"
    /\ ~ret.raised
    /\ {"x", "y"} \subseteq Live
    /\ DOMAIN bundles["x"].entries \cap DOMAIN bundles["y"].entries # {}
    /\ bundles["x"].entries # bundles["y"].entries
    /\ bundles["r"] = SetOperation(bundles["x"], bundles["y"], "union")

\* C15: len(A.union(B)) == len(A) + len(B) - len(A.intersection(B)) for
\* all bundles A and B; when A.isdisjoint(B), the union has
\* len(A) + len(B) entries.
C15_InclusionExclusion ==
    \A a \in Live, b \in Live :
        LET A == bundles[a]
            B == bundles[b]
        IN  /\ Size(SetOperation(A, B, "union"))
                  = Size(A) + Size(B) - Size(SetOperation(A, B, "intersection"))
            /\ PredicateValue(DOMAIN A.entries, DOMAIN B.entries, "isdisjoint")
                  => Size(SetOperation(A, B, "union")) = Size(A) + Size(B)

\* C15 witness: the union of two disjoint bundles, neither empty, has been
\* taken and has as many entries as the two together.
C15_Witness ==
    /\ ret.op = "setop"
    /\ ~ret.raised
    /\ {"x", "y"} \subseteq Live
    /\ Size(bundles["x"]) > 0
    /\ Size(bundles["y"]) > 0
    /\ PredicateValue(DOMAIN bundles["x"].entries, DOMAIN bundles["y"].entries,
                      "isdisjoint")
    /\ Size(bundles["r"]) = Size(bundles["x"]) + Size(bundles["y"])

\* a step in which a set operation has returned a bundle
SetOperationStep == call.pc = "idle" /\ ret'.op = "setop" /\ ~ret'.raised

\* C16: every set operation returns a bundle of its own whose name is None,
\* leaves the entries and the name of both operands as they were, and has
\* no effect on any snapshot file.
C16_SetOperationFrame ==
    [][SetOperationStep =>
          /\ bundles'["r"].live
          /\ bundles'["r"].name = NoName
          /\ \A s \in Slots \ {"r"} : bundles'[s] = bundles[s]
          /\ disk' = disk]_vars

\* C16 witness: a set operation on a named bundle that has entries and a
\* snapshot file has returned a bundle with entries.
C16_Witness ==
    /\ ret.op = "setop"
    /\ ~ret.raised
    /\ bundles["r"].live
    /\ bundles["r"].name = NoName
    /\ Size(bundles["r"]) > 0
    /\ \E b \in Live \ {"r"} :
          /\ bundles[b].name # NoName
          /\ Size(bundles[b]) > 0
          /\ disk[FilePath(bundles[b].name)].exists

\* a step in which a set operation or a set predicate was given an
\* operand that is not a bundle, and one in which == was
InvalidOperandStep ==
    /\ call.pc = "idle"
    /\ ret'.op \in {"setop", "setpred"}
    /\ ret'.args # <<>>
    /\ ret'.args[1] \in NonBundles

EqNonBundleStep ==
    /\ call.pc = "idle"
    /\ ret'.op = "__eq__"
    /\ ret'.args[1] \in NonBundles

\* C17: a set operation or a set predicate whose operand is not a bundle
\* signals a failure and changes no state; == with an operand that is not
\* a bundle returns false and does not raise.
C17_InvalidOperand ==
    [][/\ InvalidOperandStep
          => ret'.raised /\ bundles' = bundles /\ disk' = disk
       /\ EqNonBundleStep
          => ~ret'.raised /\ ret'.value = FALSE /\ bundles' = bundles]_vars

\* C17 witness: a set operation on a bundle that has entries has failed.
C17_Witness ==
    /\ ret.op = "setop"
    /\ ret.raised
    /\ \E b \in Live : Size(bundles[b]) > 0

Extension(path) ==
    IF Len(path) >= 2 /\ path[Len(path) - 1] = "."
    THEN SubSeq(path, Len(path) - 1, Len(path))
    ELSE <<>>

\* C19 as the specification words the filter: no filter, or the extension
\* is one of fileExtensions, or fileExtensions has an xml-family extension
\* and the source path has the container extension .mxl or .mx
PassesFilter(sourcePath, fileExtensions) ==
    \/ fileExtensions = None
    \/ /\ fileExtensions # None
       /\ \/ Extension(sourcePath) \in fileExtensions[1]
          \/ /\ \E e \in fileExtensions[1] : e[Len(e)] = "xml"
             /\ Extension(sourcePath) \in {<<".", "mxl">>, <<".", "mx">>}

SearchStep == call.pc = "idle" /\ ret'.op = "search"

\* C20: search returns a new bundle whose name is None and does not change
\* the bundle it is called on; every key and entry of the result is a key
\* and entry of that bundle.
C20_SearchFrame ==
    [][SearchStep =>
          /\ bundles'["r"].live
          /\ bundles'["r"].name = NoName
          /\ \A s \in Slots \ {"r"} : bundles'[s] = bundles[s]
          /\ disk' = disk
          /\ \A k \in DOMAIN bundles'["r"].entries :
                /\ k \in DOMAIN bundles[ret'.b].entries
                /\ bundles'["r"].entries[k] = bundles[ret'.b].entries[k]]_vars

\* C20 witness: a search of a named bundle has returned some of its entries
\* and not others.
C20_Witness ==
    /\ ret.op = "search"
    /\ \E b \in {ret.b} \ {"r"} :
          /\ bundles[b].name # NoName
          /\ DOMAIN bundles["r"].entries # {}
          /\ DOMAIN bundles["r"].entries \subseteq DOMAIN bundles[b].entries
          /\ DOMAIN bundles["r"].entries # DOMAIN bundles[b].entries

\* C21: search is idempotent: B.search(q, f).search(q, f) == B.search(q, f)
\* for every bundle B, query, field and extension filter.
C21_SearchIdempotent ==
    \A b \in Live, query \in Queries, field \in Fields,
       fileExtensions \in FilterSets :
        LET once == SearchBundle(bundles[b], query, field, fileExtensions)
        IN  BundleEq(SearchBundle(once, query, field, fileExtensions), once)

\* C21 witness: the result of a search that kept some entries of a bundle
\* and not others has itself been searched, and entries were returned.
C21_Witness ==
    /\ ret.op = "search"
    /\ ret.b = "r"
    /\ DOMAIN bundles["r"].entries # {}
    /\ bundles["x"].live
    /\ DOMAIN bundles["r"].entries \subseteq DOMAIN bundles["x"].entries
    /\ DOMAIN bundles["r"].entries # DOMAIN bundles["x"].entries

\* C22: an entry without payload never appears in the result of search,
\* for any query, field and extension filter, and search does not fail
\* when the bundle holds one.
C22_StubNeverReturned ==
    [][SearchStep =>
          /\ ~ret'.raised
          /\ bundles'["r"].live
          /\ \A k \in DOMAIN bundles'["r"].entries :
                bundles'["r"].entries[k].metadataPayload # None]_vars

\* C22 witness: a bundle that holds an entry without payload has been
\* searched, and the search returned other entries of it.
C22_Witness ==
    /\ ret.op = "search"
    /\ ~ret.raised
    /\ ret.b = "x"
    /\ \E k \in DOMAIN bundles["x"].entries :
          bundles["x"].entries[k].metadataPayload = None
    /\ DOMAIN bundles["r"].entries # {}

\* a step that is a call of read, and the snapshot file that call resolves to
ReadStep == call.pc = "idle" /\ call'.pc = "idle" /\ ret'.op = "read"

ReadPath ==
    IF ret'.args = None THEN FilePath(bundles[ret'.b].name) ELSE ret'.args

C24_ReadAbsentNoOp ==
    [][(/\ ReadStep
        /\ ReadPath # None
        /\ ~disk[ReadPath].exists) =>
          /\ ~ret'.raised
          /\ ret'.value = "absent"
          /\ bundles' = bundles
          /\ disk' = disk]_vars

\* C24 witness: a read found no snapshot file, on a bundle that holds
\* entries.
C24_Witness ==
    /\ call.pc = "idle" /\ ret.op = "read" /\ ~ret.raised
    /\ ret.value = "absent"
    /\ DOMAIN bundles[ret.b].entries # {}
    /\ \E name \in Names : bundles[ret.b].name = name /\ ret.args = None

\* a step that is a call of delete
DeleteStep == call.pc = "idle" /\ call'.pc = "idle" /\ ret'.op = "delete"

\* C25: delete() leaves no snapshot file at the bundle's location, never
\* changes the bundle in memory and never raises; on an anonymous bundle,
\* or when no file exists, it changes nothing at all.
C25_DeleteFrame ==
    [][DeleteStep =>
          LET filePath == FilePath(bundles[ret'.b].name)
          IN  /\ ~ret'.raised
              /\ bundles' = bundles
              /\ IF filePath # None /\ disk[filePath].exists
                 THEN /\ ~disk'[filePath].exists
                      /\ \A l \in Locations \ {filePath} : disk'[l] = disk[l]
                 ELSE disk' = disk]_vars

\* C25 witness: delete has run on a named bundle that holds entries, and no
\* snapshot file is left at its location.
C25_Witness ==
    /\ call.pc = "idle" /\ ret.op = "delete" /\ ~ret.raised
    /\ bundles[ret.b].name # NoName
    /\ DOMAIN bundles[ret.b].entries # {}
    /\ ~disk[FilePath(bundles[ret.b].name)].exists

\* the operations that fetch the bundle of a corpus
FromOps == {"fromCoreCorpus", "fromLocalCorpus", "fromVirtualCorpus"}

\* C26: a request for the bundle of a namespace that an earlier request
\* has loaded returns that very bundle object and leaves the cache as it
\* was, whatever the bundle holds, also when it holds no entries.
C26_CachedBundleReused ==
    [][(ret'.op \in FromOps /\ metadataBundles[ret'.args].cached) =>
          /\ ret'.value = metadataBundles[ret'.args].oid
          /\ metadataBundles' = metadataBundles]_vars

\* a step in which addFromPaths returns without raising
AddFromPathsReturn == call'.pc = "idle" /\ ret'.op = "addFromPaths" /\ ~ret'.raised

\* the entries of the bundle once the last job result of the returning call
\* has been merged
LastMerged ==
    IF call.pc = "merging"
    THEN LET i == CHOOSE i \in call.pending : TRUE
         IN  Merge(bundles[call.b].entries,
                   JobRun(call.jobs[i], call.stamp + i - 1).metadataEntries)
    ELSE bundles[ret'.b].entries

\* C27: when addFromPaths returns on a named bundle, the snapshot file
\* holds exactly the entries in memory and none that the validator removed,
\* and the validator has run over the entries as last merged: what is left
\* is unchanged, what is gone had no source file, and every source without
\* a file has lost an entry.
C27_ReturnValidatedAndPersisted ==
    [][(AddFromPathsReturn /\ bundles[ret'.b].name # NoName) =>
          \A merged \in {LastMerged},
             after \in {bundles'[ret'.b].entries},
             snapshot \in {disk'[FilePath(bundles'[ret'.b].name)]} :
              /\ snapshot.exists
              /\ snapshot.data = Freeze(after)
              /\ \A k \in DOMAIN merged \ DOMAIN after :
                    k \notin DOMAIN snapshot.data
              /\ \A k \in DOMAIN after :
                    k \in DOMAIN merged /\ after[k] = merged[k]
              /\ \A k \in DOMAIN merged \ DOMAIN after :
                    ~Exists(ResolvedPath(merged[k].sourcePath))
              /\ \A k \in DOMAIN merged :
                    (/\ ~StartsWith(merged[k].sourcePath, <<"http", ":">>)
                     /\ ~Exists(ResolvedPath(merged[k].sourcePath)))
                        => \E k2 \in DOMAIN merged \ DOMAIN after :
                              merged[k2].sourcePath = merged[k].sourcePath]_vars

\* C27 witness: addFromPaths has returned on a named bundle whose
\* two-movement document has lost its file: the validator has removed one
\* of its two entries, and the snapshot equals the entries in memory.
C27_Witness ==
    /\ call.pc = "idle" /\ ret.op = "addFromPaths" /\ ~ret.raised
    /\ bundles[ret.b].name # NoName
    /\ \E p \in corpusPaths :
          /\ Len(Movements(p)) = 2
          /\ ~Exists(Abspath(p))
          /\ Cardinality({k \in DOMAIN bundles[ret.b].entries :
                 bundles[ret.b].entries[k].sourcePath = Abspath(p)}) = 1
    /\ disk[FilePath(bundles[ret.b].name)].data = Freeze(bundles[ret.b].entries)

\* the jobs of the call in progress whose results have been merged
Completed == (1..Len(call.jobs)) \ call.pending

\* the completed jobs whose entry is in memory and not in the snapshot file
Unpersisted ==
    {i \in Completed :
        LET key == corpusPathToKey(call.jobs[i], None)
            snapshot == disk[FilePath(bundles[call.b].name)]
        IN  /\ key \in DOMAIN bundles[call.b].entries
            /\ ~(snapshot.exists /\ key \in DOMAIN snapshot.data)}

NativeSetOperation(A, B, operator) ==
    CASE operator \in {"__and__", "intersection"} -> A \cap B
      [] operator \in {"__or__", "union"} -> A \cup B
      [] operator \in {"__sub__", "difference"} -> A \ B
      [] operator \in {"__xor__", "symmetric_difference"} ->
            (A \cup B) \ (A \cap B)

\* C29: the keys of a set operation's result are the native set operation
\* on the operands' key sets, and the entry at each key is the very object
\* self holds there when self holds the key, and other's otherwise.
C29_ResultEntries ==
    \A b \in Live, other \in Live, operator \in SetOperators :
        \A result \in {SetOperationResult(bundles[b], bundles[other], operator)} :
            /\ DOMAIN result = NativeSetOperation(DOMAIN bundles[b].entries,
                                                  DOMAIN bundles[other].entries,
                                                  operator)
            /\ \A key \in DOMAIN result :
                  IF key \in DOMAIN bundles[b].entries
                  THEN EntryEq(result[key], bundles[b].entries[key])
                  ELSE EntryEq(result[key], bundles[other].entries[key])

\* C29 witness: a set operation has returned a bundle that holds, at a key
\* both x and y hold with entries of their own, the entry of x.
C29_Witness ==
    /\ call.pc = "idle" /\ ret.op = "setop" /\ ~ret.raised
    /\ bundles["x"].live /\ bundles["y"].live
    /\ \E key \in DOMAIN bundles["r"].entries :
          /\ key \in DOMAIN bundles["x"].entries
          /\ key \in DOMAIN bundles["y"].entries
          /\ ~EntryEq(bundles["x"].entries[key], bundles["y"].entries[key])
          /\ EntryEq(bundles["r"].entries[key], bundles["x"].entries[key])

\* the reference result of the key derivation, part by part: the part of
\* the path after the last corpus-root marker, the whole path without one
MarkerRelative(path) ==
    LET n == CHOOSE n \in 0..Len(path) :
                 /\ \A i \in (Len(path) - n + 1)..Len(path) : path[i] # "corpus"
                 /\ n < Len(path) => path[Len(path) - n] = "corpus"
    IN  [i \in 1..n |-> path[Len(path) - n + i]]

HasMarker(path) == \E i \in 1..Len(path) : path[i] = "corpus"

WithoutLeadingSep(s) ==
    IF s # <<>> /\ s[1] = "/" THEN [i \in 1..(Len(s) - 1) |-> s[i + 1]] ELSE s

Substituted(s) == [i \in 1..Len(s) |-> IF s[i] \in {"/", "."} THEN "_" ELSE s[i]]

Numbered(s, number) ==
    IF number = None THEN s ELSE s \o <<"_", ToString(number[1])>>

\* the reference result when a path without marker keeps its leading separator
ReferenceAsIs(path, number) ==
    Numbered(Substituted(IF HasMarker(path)
                         THEN WithoutLeadingSep(MarkerRelative(path))
                         ELSE path),
             number)

\* the reference result when the leading separator goes in either case
Reference(path, number) ==
    Numbered(Substituted(WithoutLeadingSep(MarkerRelative(path))), number)

\* C30 as stated: corpusPathToKey never raises and returns the reference
\* result in which a path without corpus-root marker is used as it is, only
\* separators and '.' being replaced.
C30_ReferenceAsIs ==
    ret.op = "corpusPathToKey" =>
        /\ ~ret.raised
        /\ ret.value[1] = ReferenceAsIs(arg[1][1], arg[1][2])

\* C30 amended: corpusPathToKey never raises and returns the part of the
\* path after the last corpus-root marker, or the whole path without one,
\* in either case without its leading separator, with every separator and
\* '.' replaced by '_' and '_<number>' appended when a number is given.
C30_Reference ==
    ret.op = "corpusPathToKey" =>
        /\ ~ret.raised
        /\ ret.value[1] = Reference(arg[1][1], arg[1][2])

\* C30 witness: the key of an absolute path without marker, with a number,
\* has been derived and does not start with '_'.
C30_Witness ==
    /\ ret.op = "corpusPathToKey"
    /\ ~HasMarker(arg[1][1])
    /\ arg[1][1][1] = "/" /\ Len(arg[1][1]) > 1
    /\ arg[1][2] # None
    /\ ret.value[1][1] # "_"

\* the call that has just returned, without raising, was addFromPaths, and
\* nothing has happened since: the sources are as that call left them
AfterAddFromPaths == ret.op = "addFromPaths" /\ ~ret.raised

\* the content of the entries as the call that has just returned left them:
\* the entries in memory before the next call has merged anything, the
\* snapshot of a named bundle while it merges
LeftByFirstCall ==
    IF call.pc = "idle"
    THEN Content(bundles[ret.b].entries)
    ELSE disk[FilePath(bundles[ret.b].name)].data

\* C31: a second addFromPaths with the same paths, right after the first
\* and with the sources unchanged, does not raise, gives a job to every
\* path the first call reported as failed, and returns with entries equal
\* in content to those the first call left.
C31_ResubmissionIdempotent ==
    [][AfterAddFromPaths =>
          /\ (call.pc = "idle" /\ ret'.op = "addFromPaths"
                 /\ ret'.b = ret.b /\ ret'.args = ret.args)
                => ~ret'.raised
          /\ (SchedulingStep /\ SchedulingBundle = ret.b
                 /\ SchedulingPaths = ret.args)
                => Range(ret.value) \subseteq ScheduledNext
          /\ (AddFromPathsReturn /\ ret'.b = ret.b /\ ret'.args = ret.args
                 /\ (call.pc = "merging" => /\ call.b = ret.b
                                             /\ bundles[ret.b].name # NoName))
                => Content(bundles'[ret.b].entries) = LeftByFirstCall]_vars

\* the call in progress is the addFromPaths of a rebuild: ret still holds
\* what the rebuild recorded when it started it
Rebuilding == call.pc = "merging" /\ ret.op = "rebuilding"

\* a step that is a call of rebuild: one that returns at once, or one that
\* starts the addFromPaths; and the step in which that addFromPaths returns
RebuildStep ==
    /\ call.pc = "idle"
    /\ \/ call'.pc = "idle" /\ ret'.op = "rebuild"
       \/ Rebuilding'

RebuildReturn == Rebuilding /\ call'.pc = "idle"

\* C32: rebuild() on an anonymous bundle changes nothing and returns the
\* bundle; on a named bundle it clears the entries and deletes the snapshot
\* file before scheduling, gives every corpus path a job and skips none,
\* and returns with entries that all come from the jobs of this rebuild.
C32_Rebuild ==
    [][/\ (RebuildStep /\ bundles[ret'.b].name = NoName) =>
              /\ ~ret'.raised /\ ret'.value = ret'.b
              /\ bundles' = bundles /\ disk' = disk /\ call' = call
       /\ (RebuildStep /\ bundles[ret'.b].name # NoName) =>
              /\ ~ret'.raised
              /\ bundles'[ret'.b].entries = <<>>
              /\ ~disk'[FilePath(bundles[ret'.b].name)].exists
              /\ call'.pc = "merging" /\ call'.b = ret'.b
              /\ call'.skippedJobsCount = 0
              /\ Len(call'.jobs) = Cardinality(corpusPaths)
              /\ Range(call'.jobs) = {Normalized(path) : path \in corpusPaths}
       /\ RebuildReturn =>
              /\ ~ret'.raised
              /\ \A k \in DOMAIN bundles'[call.b].entries :
                    \E i \in 1..Len(call.jobs) :
                        /\ bundles'[call.b].entries[k].oid[1] = call.stamp + i - 1
                        /\ bundles'[call.b].entries[k].sourcePath = call.jobs[i]]_vars

\* C32 witness: a rebuild of a named bundle that held entries of an earlier
\* call is merging its results: a job for every corpus path, none skipped,
\* and the first result is in.
C32_Witness ==
    /\ Rebuilding
    /\ bundles[call.b].name # NoName
    /\ call.stamp > 1
    /\ Len(call.jobs) = Cardinality(corpusPaths)
    /\ Cardinality(call.pending) < Len(call.jobs)
    /\ DOMAIN bundles[call.b].entries # {}

\* C33: for any two bundles a and b, a != b returns, and what it returns
\* is the negation of a == b.
C33_NeNegatesEq ==
    (call.pc = "idle" /\ ret.op = "__ne__" /\ IsBundle(ret.args[1])) =>
        /\ ~ret.raised
        /\ ret.value = ~BundleEq(bundles[ret.b], bundles[ret.args[1]])

\* the bundle of the scheduling step has no snapshot file on disk
NoSnapshotOnDisk ==
    \/ FilePath(bundles[SchedulingBundle].name) = None
    \/ ~disk[FilePath(bundles[SchedulingBundle].name)].exists

\* C34: when the bundle has no snapshot file on disk, the time at the start
\* of the call decides every path of the call: each filesystem path whose
\* key is already in entries and whose source last changed before the call
\* started gets no job.
C34_CallTimeDecides ==
    [][(SchedulingStep /\ NoSnapshotOnDisk) =>
          \A given \in SchedulingPaths :
              \A path \in {Normalized(given)} :
                  (/\ ~NetworkAddressed(given)
                   /\ corpusPathToKey(path, None)
                         \in DOMAIN bundles[SchedulingBundle].entries
                   /\ Exists(path)
                   /\ ctime[path] < now)
                  => path \notin ScheduledNext]_vars

====
